---- MODULE Spec2Model ----
(***************************************************************************)
(* wait-for-vercel-preview: the orchestrator (run), the deployment         *)
(* resolution poller (waitForDeploymentToStart), the URL health poller     *)
(* (waitForUrl) and the bypass token fetcher (getPassword) of              *)
(* src/action.js, lines 508-784.                                           *)
(*                                                                         *)
(* One action is one synchronous segment of the JavaScript code: it starts *)
(* when an awaited promise (a network reply or a timer) settles and runs   *)
(* to the next await or to the end of the async function.                  *)
(***************************************************************************)
EXTENDS Integers, Sequences, FiniteSets, TLC

VARIABLES
    runPc,      \* position of run(): "init", "pulls_get", "resolving", "done"
    env,        \* the constants run() reads from its inputs (lines 713-721)
    sha,        \* the commit SHA run() resolved (line 736)
    failed,     \* the messages passed to core.setFailed, in call order
    outputs,    \* the step outputs set with core.setOutput
    resolver,   \* the locals of waitForDeploymentToStart
    pollers,    \* one record per waitForUrl call launched by run()
    call        \* a direct call of calculateIterations or getPassword

vars == <<runPc, env, sha, failed, outputs, resolver, pollers, call>>

-----------------------------------------------------------------------------
(* Bounds *)

MaxIterations == 2      \* runs with more loop iterations are not explored
MaxWaitInput == 4       \* largest max_timeout input explored
MaxBudgetSec == 60      \* largest |maxTimeoutSec| of a direct call

-----------------------------------------------------------------------------
(* Values *)

Undefined == "<undefined>"
Null == "<null>"
Invalid == "<invalid url>"

DEFAULT_MAX_TIMEOUT == 720
DEFAULT_CHECK_INTERVAL == 2

TargetSha == "abc123"
OtherSha == "fff999"

\* a test that takes the empty string for a value
TruthyNotUndefined(v) == v # Undefined /\ v # Null

\* JavaScript truthiness of a string-or-undefined value
Truthy(v) == v # "" /\ v # Undefined /\ v # Null

\* a template literal `${v}`
TemplateString(v) == IF v = Undefined THEN "undefined" ELSE v

-----------------------------------------------------------------------------
(* Retry budget *)

\* The quotient of line 516 is computed in IEEE-754 doubles: both
\* checkIntervalInMilliseconds / 1000 and the division by it are rounded.
\* RoundedBelow holds the pairs <<maxTimeoutSec, checkIntervalInMilliseconds>>
\* whose exact quotient is an integer that the double quotient misses from
\* below (7 / 0.035 is 199.99999999999997, -21 / 0.7 is -30.000000000000004),
\* for |maxTimeoutSec| <= 100 and the intervals 35, 100, 700 and the
\* multiples of 1000; for a multiple of 1000 the divisor is an exact integer
\* and no pair is rounded below.
RoundedBelow ==
    {<<t, 35>> : t \in {7, 14, 21, 28, 35, 42, 49, 56, 63, 70, 84, 91, 98}}
        \cup {<<0 - t, 700>> : t \in {21, 42, 84}}

\* the floor of the exact quotient maxTimeoutSec * 1000 / interval
FloorOfQuotient(maxTimeoutSec, checkIntervalInMilliseconds) ==
    IF checkIntervalInMilliseconds > 0
    THEN (maxTimeoutSec * 1000) \div checkIntervalInMilliseconds
    ELSE ((0 - maxTimeoutSec) * 1000) \div (0 - checkIntervalInMilliseconds)

\* a count that rounds the quotient toward zero
calculateIterationsTrunc(maxTimeoutSec, checkIntervalInMilliseconds) ==
    IF maxTimeoutSec >= 0
    THEN FloorOfQuotient(maxTimeoutSec, checkIntervalInMilliseconds)
    ELSE 0 - FloorOfQuotient(0 - maxTimeoutSec, checkIntervalInMilliseconds)

\* Math.floor(maxTimeoutSec / (checkIntervalInMilliseconds / 1000))
calculateIterations(maxTimeoutSec, checkIntervalInMilliseconds) ==
    FloorOfQuotient(maxTimeoutSec, checkIntervalInMilliseconds)
        - (IF <<maxTimeoutSec, checkIntervalInMilliseconds>> \in RoundedBelow
           THEN 1 ELSE 0)

-----------------------------------------------------------------------------
(* Inputs of the step *)

\* the texts of the inputs as configured; " " is an input of white space
TokenInputs == {"", " ", "ghp_token"}
VercelTokenInputs == {"", "vercel_token"}
VercelPasswordInputs == {"", "secret"}

\* core.getInput returns the text of an input, '' when it is not configured
NumericInputs == ((0 - 1)..MaxWaitInput) \cup {360}
MaxTimeoutInputs == {""} \cup {ToString(n) : n \in (0 - 1)..MaxWaitInput}
CheckIntervalInputs == {""} \cup {ToString(n) : n \in {0 - 1, 0, 1, 2, 360}}
PathInputs == {"", "//"}

\* github.context: the event payload and the push SHA
Contexts ==
    { [pull_request |-> TRUE,  number |-> 7, sha |-> TargetSha],
      [pull_request |-> TRUE,  number |-> 0, sha |-> TargetSha],
      [pull_request |-> FALSE, number |-> 0, sha |-> TargetSha],
      [pull_request |-> FALSE, number |-> 0, sha |-> ""] }

\* Number(text): 0 for '', else the integer the text denotes
Number(input) ==
    IF input = "" THEN 0
    ELSE CHOOSE n \in NumericInputs : ToString(n) = input

\* Number(core.getInput('max_timeout')) || 720
MAX_TIMEOUT(input) ==
    IF Number(input) # 0 THEN Number(input) ELSE DEFAULT_MAX_TIMEOUT

\* (Number(core.getInput('check_interval')) || 2) * 1000
CHECK_INTERVAL_IN_MS(input) ==
    (IF Number(input) # 0 THEN Number(input)
     ELSE DEFAULT_CHECK_INTERVAL) * 1000

\* core.getInput('path') || '/'
PATH(input) == IF Truthy(input) THEN input ELSE "/"

\* String.prototype.trim, on the texts of the model
Trim(text) == IF text = " " THEN "" ELSE text

\* core.getInput(name, options) on an input configured as `text`: throws
\* when the input is required and its text is empty as configured, else
\* returns the text without surrounding white space
getInput(name, text, required) ==
    IF required /\ ~Truthy(text)
    THEN [thrown |-> TRUE,
          value  |-> "Input required and not supplied: " \o name]
    ELSE [thrown |-> FALSE, value |-> Trim(text)]

\* github.getOctokit(token), as @actions/github is published: throws for
\* an empty token
NoAuthMessage == "Parameter token or opts.auth is required"
getOctokit(token) ==
    IF Truthy(token) THEN [thrown |-> FALSE, value |-> token]
    ELSE [thrown |-> TRUE, value |-> NoAuthMessage]

ReadInputs(token, vercelToken, vercelPassword, maxTimeout, checkInterval, path) ==
    [ GITHUB_TOKEN         |-> IF getInput("token", token, TRUE).thrown THEN ""
                               ELSE getInput("token", token, TRUE).value,
      VERCEL_PASSWORD      |-> getInput("vercel_password", vercelPassword,
                                        FALSE).value,
      VERCEL_TOKEN         |-> getInput("vercel_token", vercelToken,
                                        FALSE).value,
      MAX_TIMEOUT          |-> MAX_TIMEOUT(maxTimeout),
      PATH                 |-> PATH(getInput("path", path, FALSE).value),
      CHECK_INTERVAL_IN_MS |-> CHECK_INTERVAL_IN_MS(checkInterval),
      max_timeout          |-> maxTimeout ]   \* the text of the input

NoEnv == ReadInputs("", "", "", "", "", "")

-----------------------------------------------------------------------------
(* Replies of the deployment platform *)

InProgressStates == {"QUEUED", "BUILDING", "INITIALIZING"}

Dep(name, state) == [name |-> name, state |-> state]

\* data.deployments of GET /v6/deployments
DeploymentLists ==
    { <<Dep("web", "READY"), Dep("api", "ERROR")>>,
      <<Dep("web", "QUEUED")>>,
      <<Dep("web", "READY"), Dep("api", "BUILDING")>>,
      <<Dep("docs", "INITIALIZING"), Dep("web", "READY")>> }

Latest(name, hasMeta, commit, aliases) ==
    [name |-> name, hasMeta |-> hasMeta, githubCommitSha |-> commit,
     automaticAliases |-> aliases]

WebAliases == <<"web-abc.vercel.app", "web-preview.vercel.app">>

\* data.projects of GET /v9/projects, each project by its latestDeployments
ProjectLists ==
    { <<>>,
      << <<Latest("web", TRUE, TargetSha, WebAliases)>> >>,
      << <<Latest("web", TRUE, OtherSha, WebAliases)>> >>,
      << <<Latest("web", TRUE, TargetSha, WebAliases),
           Latest("web", TRUE, OtherSha, <<"web-old.vercel.app">>)>>,
         <<Latest("api", TRUE, TargetSha, <<"api-abc.vercel.app">>)>> >>,
      << <<Latest("web", TRUE, OtherSha, WebAliases),
           Latest("web", TRUE, TargetSha, <<"web-abc.vercel.app">>)>>,
         <<>> >>,
      << <<Latest("api", TRUE, TargetSha, <<>>)>> >>,
      << <<Latest("web", TRUE, TargetSha, <<"bad host">>)>> >>,
      << <<Latest("web", FALSE, TargetSha, WebAliases)>> >> }


-----------------------------------------------------------------------------
(* Replies of a preview deployment *)

\* a client that also accepts client errors
validateStatusLax(status) == status >= 200 /\ status < 500

\* the default validateStatus of axios, used by axios.get at line 552:
\* a reply with any other status rejects with an error carrying e.response
validateStatusDefault(status) == status >= 200 /\ status < 300

\* validateStatus of getPassword (lines 599-602)
validateStatus(status) == status >= 200 /\ status < 307

NoReply == [kind |-> "none", status |-> 0]
NoResponse == [kind |-> "no_response", status |-> 0]
Response(status) == [kind |-> "response", status |-> status]

GetStatuses == {200, 404}
GetReplies == {NoResponse} \cup {Response(s) : s \in GetStatuses}

\* a Set-Cookie string "name=value; attribute", by its parts
Cookie(name, value) == <<name, value, "Path=/">>

BypassReply(status, hasSetCookie, setCookie) ==
    [kind |-> "response", status |-> status,
     hasSetCookie |-> hasSetCookie, setCookie |-> setCookie]

\* the request of line 591 ended without a response
NoBypassResponse ==
    [kind |-> "no_response", status |-> 0,
     hasSetCookie |-> FALSE, setCookie |-> <<>>]

\* a JWT issued by the deployment at `url`: deployments issue their own
Jwt(serial, url) == serial \o "@" \o url

\* the replies the deployment at `url` can give to the POST of line 591;
\* a reply names a cookie at most once
BypassReplies(url) ==
    { NoBypassResponse,
      BypassReply(303, TRUE, <<Cookie("_vercel_jwt", Jwt("abc123", url))>>),
      BypassReply(200, TRUE, <<Cookie("other", "x"),
                               Cookie("_vercel_jwt", Jwt("def456", url))>>),
      BypassReply(303, FALSE, <<>>),
      BypassReply(200, TRUE, <<>>),
      BypassReply(303, TRUE, <<Cookie("other", "x")>>),
      BypassReply(303, TRUE, <<Cookie("_vercel_jwt", "")>>),
      BypassReply(307, TRUE, <<Cookie("_vercel_jwt", Jwt("abc123", url))>>),
      BypassReply(403, FALSE, <<>>) }

\* setCookieParser(setCookieHeader): one {name, value} per Set-Cookie string
setCookieParser(setCookieHeader) ==
    [k \in DOMAIN setCookieHeader |->
        [name |-> setCookieHeader[k][1], value |-> setCookieHeader[k][2]]]

\* cookies.find(cookie => cookie.name === '_vercel_jwt'): the first match
RECURSIVE FindCookie(_, _)
FindCookie(cookies, name) ==
    IF cookies = <<>> THEN [name |-> Undefined, value |-> Undefined]
    ELSE IF Head(cookies).name = name THEN Head(cookies)
    ELSE FindCookie(Tail(cookies), name)

Thrown(message) == [ok |-> FALSE, value |-> message]
Returned(value) == [ok |-> TRUE, value |-> value]

\* a fetcher that returns the cookie's value without testing it
getPasswordUnchecked(reply) ==
    IF reply.kind # "response" THEN Thrown("Network Error")
    ELSE IF ~validateStatus(reply.status) THEN Thrown("Request failed")
    ELSE IF ~reply.hasSetCookie THEN Thrown("no vercel JWT in response")
    ELSE LET vercelJwtCookie ==
                 FindCookie(setCookieParser(reply.setCookie), "_vercel_jwt")
         IN  IF vercelJwtCookie.name = Undefined
             THEN Thrown("no vercel JWT in response")
             ELSE Returned(vercelJwtCookie.value)

\* getPassword after its request settled with `reply`: the JWT it returns or
\* the error it throws
getPassword(reply) ==
    IF reply.kind # "response" THEN Thrown("Network Error")
    ELSE IF ~validateStatus(reply.status) THEN Thrown("Request failed")
    ELSE IF ~reply.hasSetCookie THEN Thrown("no vercel JWT in response")
    ELSE LET vercelJwtCookie ==
                 FindCookie(setCookieParser(reply.setCookie), "_vercel_jwt")
         IN  IF vercelJwtCookie.name = Undefined \/ ~Truthy(vercelJwtCookie.value)
             THEN Thrown("no vercel JWT in response")
             ELSE Returned(vercelJwtCookie.value)

\* new URL(path, url): the base must parse and the path must resolve
ValidBase(url) == url # "https://bad host"

NewURL(path, url) ==
    IF ValidBase(url) /\ path # "//" THEN url \o path ELSE Invalid


-----------------------------------------------------------------------------
(* URL health poller: waitForUrl *)

\* a failure message that leaves the URL out
TimeoutMessageNoUrl(url) == "Timeout reached: Unable to connect"

TimeoutMessage(url) == "Timeout reached: Unable to connect to " \o url

\* a catch block that sleeps twice
CatchAndWaitTwice(q) == [q EXCEPT !.pc = "wait", !.sleeps = @ + 2]

\* the catch block (lines 557-574): log, then `await wait(...)`
CatchAndWait(q) == [q EXCEPT !.pc = "wait", !.sleeps = @ + 1]

\* a poller that sends the token last published as the step's output
SendGetShared(q, path) ==
    IF NewURL(path, q.url) = Invalid
    THEN CatchAndWait([q EXCEPT !.urlErrors = @ + 1])
    ELSE [q EXCEPT !.pc = "get", !.gets = @ + 1,
                   !.sentCookie = outputs.vercel_jwt]

\* lines 549-554: resolve the check URI and send the GET with `headers`
SendGet(q, path) ==
    IF NewURL(path, q.url) = Invalid
    THEN CatchAndWait([q EXCEPT !.urlErrors = @ + 1])
    ELSE [q EXCEPT !.pc = "get", !.gets = @ + 1, !.sentCookie = q.headers]

\* a loop body that keeps the token of an earlier attempt
BeginAttemptCached(q, vercelPassword, path) ==
    IF Truthy(vercelPassword) /\ q.headers = ""
    THEN [q EXCEPT !.pc = "post", !.posts = @ + 1]
    ELSE SendGet(q, path)

\* lines 533-547: the start of the loop body
BeginAttempt(q, vercelPassword, path) ==
    IF Truthy(vercelPassword)
    THEN [q EXCEPT !.pc = "post", !.posts = @ + 1, !.headers = ""]
    ELSE SendGet([q EXCEPT !.headers = ""], path)

\* a loop that makes one attempt more than the budget allows
LoopTestOffByOne(q, vercelPassword, path) ==
    IF q.i <= q.iterations
    THEN BeginAttempt(q, vercelPassword, path)
    ELSE [q EXCEPT !.pc = "done", !.outcome = "Timeout"]

\* line 532: the loop test; line 577 is reached when it fails
LoopTest(q, vercelPassword, path) ==
    IF q.i < q.iterations
    THEN BeginAttempt(q, vercelPassword, path)
    ELSE [q EXCEPT !.pc = "done", !.outcome = "Timeout"]

\* the call waitForUrl({url, ...}) up to its first await
waitForUrl(url, maxTimeout, checkIntervalInMilliseconds, vercelPassword, path) ==
    LoopTest([ url        |-> url,
               iterations |-> calculateIterations(maxTimeout,
                                                  checkIntervalInMilliseconds),
               i          |-> 0,
               pc         |-> "start",
               outcome    |-> "Pending",
               headers    |-> "",
               sentCookie |-> "",
               lastGet    |-> NoReply,
               gets       |-> 0,
               posts      |-> 0,
               sleeps     |-> 0,
               noResponses |-> 0,
               urlErrors  |-> 0 ],
             vercelPassword, path)

\* core.setFailed at line 577, when the step of poller p ended in Timeout
TimeoutFailure(before, after) ==
    IF before.outcome = "Pending" /\ after.outcome = "Timeout"
    THEN <<TimeoutMessage(after.url)>>
    ELSE <<>>

\* a poller that sends the health check without a cookie when the fetch failed
PostReplyGetAnyway(p) ==
    /\ p \in DOMAIN pollers
    /\ pollers[p].pc = "post"
    /\ \E reply \in BypassReplies(pollers[p].url) :
         LET q == pollers[p]
             jwt == getPassword(reply)
         IN  IF jwt.ok
             THEN /\ pollers' = [pollers EXCEPT ![p] =
                        SendGet([q EXCEPT !.headers = jwt.value], env.PATH)]
                  /\ outputs' = [outputs EXCEPT !.vercel_jwt = jwt.value]
             ELSE /\ pollers' = [pollers EXCEPT ![p] = SendGet(q, env.PATH)]
                  /\ outputs' = outputs
    /\ UNCHANGED <<runPc, env, sha, failed, resolver>>
    /\ UNCHANGED call

\* the reply to the POST of getPassword arrives (lines 591-623, 542-554)
PostReply(p) ==
    /\ p \in DOMAIN pollers
    /\ pollers[p].pc = "post"
    /\ \E reply \in BypassReplies(pollers[p].url) :
         LET q == pollers[p]
             jwt == getPassword(reply)
         IN  IF jwt.ok
             THEN /\ pollers' = [pollers EXCEPT ![p] =
                        SendGet([q EXCEPT !.headers = jwt.value], env.PATH)]
                  /\ outputs' = [outputs EXCEPT !.vercel_jwt = jwt.value]
             ELSE /\ pollers' = [pollers EXCEPT ![p] = CatchAndWait(q)]
                  /\ outputs' = outputs
    /\ UNCHANGED <<runPc, env, sha, failed, resolver>>
    /\ UNCHANGED call

\* the reply to the health-check GET arrives (lines 552-573)
GetReply(p) ==
    /\ p \in DOMAIN pollers
    /\ pollers[p].pc = "get"
    /\ \E reply \in GetReplies :
         LET q == [pollers[p] EXCEPT
                      !.lastGet = reply,
                      !.noResponses = IF reply.kind = "no_response"
                                      THEN @ + 1 ELSE @]
         IN  pollers' = [pollers EXCEPT ![p] =
                 IF reply.kind = "response" /\ validateStatusDefault(reply.status)
                 THEN [q EXCEPT !.pc = "done", !.outcome = "Success"]
                 ELSE CatchAndWait(q)]
    /\ UNCHANGED <<runPc, env, sha, failed, outputs, resolver>>
    /\ UNCHANGED call

\* the timer of line 573 fires: i++, then the next attempt or line 577
WaitDone(p) ==
    /\ p \in DOMAIN pollers
    /\ pollers[p].pc = "wait"
    /\ LET q == pollers[p]
           r == LoopTest([q EXCEPT !.i = @ + 1], env.VERCEL_PASSWORD, env.PATH)
       IN  /\ pollers' = [pollers EXCEPT ![p] = r]
           /\ failed' = failed \o TimeoutFailure(q, r)
    /\ UNCHANGED <<runPc, env, sha, outputs, resolver>>
    /\ UNCHANGED call


-----------------------------------------------------------------------------
(* Deployment resolution poller: waitForDeploymentToStart *)

IsQueued(d) ==
    d.state = "QUEUED" \/ d.state = "BUILDING" \/ d.state = "INITIALIZING"

\* a test that only knows the QUEUED state
hasQueuedDeploymentsOnlyQueued(deployments) ==
    \E k \in DOMAIN deployments : deployments[k].state = "QUEUED"

\* line 653: deployments.some(...)
hasQueuedDeployments(deployments) ==
    \E k \in DOMAIN deployments : IsQueued(deployments[k])

\* a target built from the first alias
toAddFirstAlias(deployment) ==
    [ url  |-> IF Len(deployment.automaticAliases) = 0 THEN Undefined
               ELSE deployment.automaticAliases[1],
      name |-> deployment.name ]

\* lines 661-664
toAdd(deployment) ==
    [ url  |-> IF Len(deployment.automaticAliases) = 0 THEN Undefined
               ELSE deployment.automaticAliases[Len(deployment.automaticAliases)],
      name |-> deployment.name ]

\* lines 659-667: the inner forEach over one project's latestDeployments
RECURSIVE LinksOfProject(_, _)
LinksOfProject(projectDeployments, commit) ==
    IF projectDeployments = <<>> THEN <<>>
    ELSE (IF Head(projectDeployments).githubCommitSha = commit
          THEN <<toAdd(Head(projectDeployments))>> ELSE <<>>)
         \o LinksOfProject(Tail(projectDeployments), commit)

\* lines 656-668: the outer forEach over the projects
RECURSIVE finalLinks(_, _)
finalLinks(latestDeployments, commit) ==
    IF latestDeployments = <<>> THEN <<>>
    ELSE LinksOfProject(Head(latestDeployments), commit)
         \o finalLinks(Tail(latestDeployments), commit)

\* line 660 reads deployment.meta.githubCommitSha of every record: a record
\* without `meta` throws a TypeError, caught at line 674
LinksThrow(latestDeployments) ==
    \E p \in DOMAIN latestDeployments :
        \E k \in DOMAIN latestDeployments[p] : ~latestDeployments[p][k].hasMeta

Pending == [kind |-> "pending", links |-> <<>>]
ReturnNull == [kind |-> "null", links |-> <<>>]
ReturnLinks(links) == [kind |-> "links", links |-> links]

\* a loop that gives up one attempt early
ResolverLoopTestOneShort(r) ==
    IF r.i + 1 < r.iterations
    THEN [r EXCEPT !.pc = "deps", !.depFetches = @ + 1]
    ELSE [r EXCEPT !.pc = "returned", !.result = ReturnNull]

\* line 647: the loop test; line 652 sends the deployments request,
\* line 681 returns null
ResolverLoopTest(r) ==
    IF r.i < r.iterations
    THEN [r EXCEPT !.pc = "deps", !.depFetches = @ + 1]
    ELSE [r EXCEPT !.pc = "returned", !.result = ReturnNull]

IdleResolver ==
    [ pc |-> "idle", iterations |-> 0, i |-> 0,
      vercelDeps |-> <<>>, vercelProjects |-> <<>>,
      depFetches |-> 0, projFetches |-> 0, sleeps |-> 0,
      inProgressAttempts |-> 0, result |-> Pending ]

\* the call waitForDeploymentToStart({...}) up to its first await
waitForDeploymentToStart(maxTimeout, checkIntervalInMilliseconds) ==
    ResolverLoopTest([IdleResolver EXCEPT
        !.iterations = calculateIterations(maxTimeout,
                                           checkIntervalInMilliseconds)])

-----------------------------------------------------------------------------
(* Orchestrator: run *)

NoDeploymentMessage == "no vercel deployment found, exiting..."
NoShaMessage == "Unable to determine SHA. Exiting..."
NoPrNumberMessage == "No pull request number was found"
NoPrInfoMessage == "Could not get information about the current pull request"
NoTokenMessage == getInput("token", "", TRUE).value
\* the messages of lines 724-725, without their backquotes
NoGithubTokenMessage == "Required field token was not provided"
NoVercelTokenMessage == "Required field vercel_token was not provided"

\* the setFailed calls of the pollers that reach line 577 before any await
RECURSIVE LaunchFailures(_)
LaunchFailures(launched) ==
    IF launched = <<>> THEN <<>>
    ELSE (IF Head(launched).outcome = "Timeout"
          THEN <<TimeoutMessage(Head(launched).url)>> ELSE <<>>)
         \o LaunchFailures(Tail(launched))

\* lines 769-777: one waitForUrl call per url, none of them awaited by run
Launch(urls, e) ==
    [k \in DOMAIN urls |->
        waitForUrl("https://" \o TemplateString(urls[k].url), e.MAX_TIMEOUT,
                   e.CHECK_INTERVAL_IN_MS, e.VERCEL_PASSWORD, e.PATH)]

\* lines 755-777: run() from the call of waitForDeploymentToStart on, given
\* the poller's state r at its next await or at its return
Orchestrate(r, e, f) ==
    /\ resolver' = r
    /\ IF r.pc # "returned"
       THEN /\ runPc' = "resolving"
            /\ failed' = f
            /\ UNCHANGED <<outputs, pollers>>
       ELSE IF r.result.kind = "null"
       THEN /\ runPc' = "done"
            /\ failed' = Append(f, NoDeploymentMessage)
            /\ UNCHANGED <<outputs, pollers>>
       ELSE /\ runPc' = "done"
            /\ outputs' = [outputs EXCEPT !.urls = r.result.links,
                                          !.urlsSet = TRUE]
            /\ pollers' = Launch(r.result.links, e)
            /\ failed' = f \o LaunchFailures(Launch(r.result.links, e))

\* the failures recorded at lines 724-725; run goes on after either
RequiredFieldFailures(e) ==
    (IF Truthy(e.GITHUB_TOKEN) THEN <<>> ELSE <<NoGithubTokenMessage>>)
        \o (IF Truthy(e.VERCEL_TOKEN) THEN <<>> ELSE <<NoVercelTokenMessage>>)

\* lines 711-760 and 779-781: run() up to its first await, or to its catch
RunStart ==
    /\ runPc = "init"
    /\ \E token \in TokenInputs, vercelToken \in VercelTokenInputs,
          vercelPassword \in VercelPasswordInputs,
          maxTimeout \in MaxTimeoutInputs,
          checkInterval \in CheckIntervalInputs,
          path \in PathInputs, context \in Contexts :
         LET e == ReadInputs(token, vercelToken, vercelPassword,
                             maxTimeout, checkInterval, path)
             f == RequiredFieldFailures(e)
         IN  /\ calculateIterations(e.MAX_TIMEOUT, e.CHECK_INTERVAL_IN_MS)
                    <= MaxIterations
             /\ env' = e
             /\ IF getInput("token", token, TRUE).thrown
                THEN \* getInput('token', {required: true}) throws (line 713)
                     \* and the catch of lines 779-781 records the error
                     /\ runPc' = "done"
                     /\ failed' = Append(failed,
                                       getInput("token", token, TRUE).value)
                     /\ UNCHANGED <<sha, outputs, resolver, pollers>>
                ELSE IF getOctokit(e.GITHUB_TOKEN).thrown
                THEN \* github.getOctokit throws (line 727), after the
                     \* failures of lines 724-725; caught at lines 779-781
                     /\ runPc' = "done"
                     /\ failed' = Append(f, getOctokit(e.GITHUB_TOKEN).value)
                     /\ UNCHANGED <<sha, outputs, resolver, pollers>>
                ELSE IF context.pull_request /\ context.number = 0
                THEN \* getShaForPullRequest returns undefined (lines 687-690)
                     /\ runPc' = "done"
                     /\ failed' = f \o <<NoPrNumberMessage, NoShaMessage>>
                     /\ UNCHANGED <<sha, outputs, resolver, pollers>>
                ELSE IF context.pull_request
                THEN \* await octokit.rest.pulls.get (line 693)
                     /\ runPc' = "pulls_get"
                     /\ failed' = f
                     /\ UNCHANGED <<sha, outputs, resolver, pollers>>
                ELSE IF Truthy(context.sha)
                THEN /\ sha' = context.sha
                     /\ Orchestrate(waitForDeploymentToStart(e.MAX_TIMEOUT,
                                        e.CHECK_INTERVAL_IN_MS), e, f)
                ELSE /\ runPc' = "done"
                     /\ failed' = Append(f, NoShaMessage)
                     /\ UNCHANGED <<sha, outputs, resolver, pollers>>
    /\ UNCHANGED call

PullReply(status, headSha) == [throws |-> FALSE, status |-> status, sha |-> headSha]

PullsGetReplies ==
    { [throws |-> TRUE, status |-> 404, sha |-> ""],
      PullReply(200, TargetSha),
      PullReply(200, ""),
      PullReply(202, TargetSha) }

\* the reply of octokit.rest.pulls.get arrives (lines 693-707, 749-760)
PullsGetReply ==
    /\ runPc = "pulls_get"
    /\ \E reply \in PullsGetReplies :
         IF reply.throws
         THEN \* the catch of run (line 780)
              /\ runPc' = "done"
              /\ failed' = Append(failed, "Not Found")
              /\ UNCHANGED <<sha, outputs, resolver, pollers>>
         ELSE IF reply.status # 200
         THEN /\ runPc' = "done"
              /\ failed' = failed \o <<NoPrInfoMessage, NoShaMessage>>
              /\ UNCHANGED <<sha, outputs, resolver, pollers>>
         ELSE IF ~Truthy(reply.sha)
         THEN \* `if (!sha)` (lines 749-752)
              /\ sha' = reply.sha
              /\ runPc' = "done"
              /\ failed' = Append(failed, NoShaMessage)
              /\ UNCHANGED <<outputs, resolver, pollers>>
         ELSE /\ sha' = reply.sha
              /\ Orchestrate(waitForDeploymentToStart(env.MAX_TIMEOUT,
                                 env.CHECK_INTERVAL_IN_MS), env, failed)
    /\ UNCHANGED env
    /\ UNCHANGED call

\* a catch that gives up: the error ends the call
ResolverCatchGiveUp(r) == [r EXCEPT !.pc = "returned", !.result = ReturnNull]

\* the catch of line 674 falls through to `await wait(...)` at line 678
ResolverCatch(r) == [r EXCEPT !.pc = "wait", !.sleeps = @ + 1]

\* a resolver that tests the deployment list before asking for the projects
DepsReplyTestFirst ==
    /\ runPc = "resolving"
    /\ resolver.pc = "deps"
    /\ \/ resolver' = ResolverCatch(resolver)
       \/ \E deployments \in DeploymentLists :
            resolver' =
                IF hasQueuedDeployments(deployments)
                THEN [resolver EXCEPT !.pc = "wait_queued",
                                      !.vercelDeps = deployments,
                                      !.sleeps = @ + 1,
                                      !.inProgressAttempts = @ + 1]
                ELSE [resolver EXCEPT !.pc = "projects",
                                      !.vercelDeps = deployments,
                                      !.projFetches = @ + 1]
    /\ UNCHANGED <<runPc, env, sha, failed, outputs, pollers>>
    /\ UNCHANGED call

\* the reply of GET /v6/deployments arrives (lines 652-655)
DepsReply ==
    /\ runPc = "resolving"
    /\ resolver.pc = "deps"
    /\ \/ resolver' = ResolverCatch(resolver)
       \/ \E deployments \in DeploymentLists :
            resolver' = [resolver EXCEPT
                !.pc = "projects",
                !.vercelDeps = deployments,
                !.projFetches = @ + 1,
                !.inProgressAttempts =
                    IF \E k \in DOMAIN deployments :
                          deployments[k].state \in InProgressStates
                    THEN @ + 1 ELSE @]
    /\ UNCHANGED <<runPc, env, sha, failed, outputs, pollers>>
    /\ UNCHANGED call

\* the reply of GET /v9/projects arrives (lines 655-676, 762-777)
ProjectsReply ==
    /\ runPc = "resolving"
    /\ resolver.pc = "projects"
    /\ \/ /\ resolver' = ResolverCatch(resolver)
          /\ UNCHANGED <<runPc, failed, outputs, pollers>>
       \/ \E projects \in ProjectLists :
            LET r == [resolver EXCEPT !.vercelProjects = projects]
            IN  IF LinksThrow(projects)
                THEN /\ resolver' = ResolverCatch(r)
                     /\ UNCHANGED <<runPc, failed, outputs, pollers>>
                ELSE IF ~hasQueuedDeployments(r.vercelDeps)
                THEN Orchestrate([r EXCEPT !.pc = "returned",
                                     !.result = ReturnLinks(finalLinks(projects, sha))],
                                 env, failed)
                ELSE \* line 672
                     /\ resolver' = [r EXCEPT !.pc = "wait_queued",
                                              !.sleeps = @ + 1]
                     /\ UNCHANGED <<runPc, failed, outputs, pollers>>
    /\ UNCHANGED <<env, sha>>
    /\ UNCHANGED call

\* the timer of line 672 fires: `await wait(...)` at line 678
QueuedWaitDone ==
    /\ runPc = "resolving"
    /\ resolver.pc = "wait_queued"
    /\ resolver' = [resolver EXCEPT !.pc = "wait", !.sleeps = @ + 1]
    /\ UNCHANGED <<runPc, env, sha, failed, outputs, pollers>>
    /\ UNCHANGED call

\* the timer of line 678 fires: i++, then the next attempt or `return null`
ResolverWaitDone ==
    /\ runPc = "resolving"
    /\ resolver.pc = "wait"
    /\ Orchestrate(ResolverLoopTest([resolver EXCEPT !.i = @ + 1]), env, failed)
    /\ UNCHANGED <<env, sha>>
    /\ UNCHANGED call

-----------------------------------------------------------------------------

\* no direct call: the step runs run()
NoCall ==
    [ fn |-> "none", done |-> FALSE,
      maxTimeoutSec |-> 0, checkIntervalInMilliseconds |-> 1000,
      iterations |-> 0,
      url |-> "", requests |-> 0, reply |-> NoBypassResponse,
      jwt |-> Thrown("") ]

Init ==
    /\ runPc = "init"
    /\ env = NoEnv
    /\ sha = Undefined
    /\ failed = <<>>
    /\ outputs = [urls |-> <<>>, urlsSet |-> FALSE, vercel_jwt |-> ""]
    /\ resolver = IdleResolver
    /\ pollers = <<>>
    /\ call = NoCall

Next ==
    \/ RunStart
    \/ PullsGetReply
    \/ DepsReply
    \/ ProjectsReply
    \/ QueuedWaitDone
    \/ ResolverWaitDone
    \/ \E p \in DOMAIN pollers : PostReply(p)
    \/ \E p \in DOMAIN pollers : GetReply(p)
    \/ \E p \in DOMAIN pollers : WaitDone(p)

Spec == Init /\ [][Next]_vars

\* run launches at most one poller per latest-deployment record
MaxPollers == 2

\* the check interval of the invocations below: with 1 s the number of
\* attempts is the budget in seconds
InvokedCheckIntervals == {"1"}

\* the state in which run(), started by a push event with both tokens
\* configured, has called waitForDeploymentToStart (line 755): the call is
\* at its first await, or has returned null at once and failed the step
\* (lines 762-764)
InitInvoked ==
    \E vercelPassword \in VercelPasswordInputs,
       maxTimeout \in MaxTimeoutInputs,
       checkInterval \in InvokedCheckIntervals,
       path \in PathInputs :
       LET e == ReadInputs("ghp_token", "vercel_token", vercelPassword,
                           maxTimeout, checkInterval, path)
           r == waitForDeploymentToStart(e.MAX_TIMEOUT,
                                         e.CHECK_INTERVAL_IN_MS)
       IN  /\ r.iterations <= MaxIterations
           /\ env = e
           /\ sha = TargetSha
           /\ resolver = r
           /\ runPc = IF r.pc = "returned" THEN "done" ELSE "resolving"
           /\ failed = IF r.pc = "returned"
                       THEN <<NoDeploymentMessage>> ELSE <<>>
           /\ outputs = [urls |-> <<>>, urlsSet |-> FALSE, vercel_jwt |-> ""]
           /\ pollers = <<>>
           /\ call = NoCall

\* the steps of the two pollers
NextInvoked ==
    \/ DepsReply
    \/ ProjectsReply
    \/ QueuedWaitDone
    \/ ResolverWaitDone
    \/ \E p \in DOMAIN pollers : PostReply(p)
    \/ \E p \in DOMAIN pollers : GetReply(p)
    \/ \E p \in DOMAIN pollers : WaitDone(p)

\* every network call is answered and every timer fires: the event loop
\* runs the continuation of a settled promise
Fairness ==
    /\ WF_vars(DepsReply)
    /\ WF_vars(ProjectsReply)
    /\ WF_vars(QueuedWaitDone)
    /\ WF_vars(ResolverWaitDone)
    /\ \A p \in 1..MaxPollers :
          /\ WF_vars(PostReply(p))
          /\ WF_vars(GetReply(p))
          /\ WF_vars(WaitDone(p))

FairSpec == InitInvoked /\ [][NextInvoked]_vars /\ Fairness

-----------------------------------------------------------------------------
(* Direct calls of calculateIterations and of getPassword *)

BudgetInputs == (0 - MaxBudgetSec)..MaxBudgetSec
IntervalMillisInputs == {35, 100, 700, 1000, 2000, 3000}

CallUrls == {"https://web-preview.vercel.app", "https://api-abc.vercel.app"}

\* the state before a direct call calculateIterations(maxTimeoutSec, ms)
\* returns, or when the request of getPassword({url, vercelPassword}) has
\* been sent (line 591) and its reply is about to arrive
InitCalls ==
    /\ runPc = "call"
    /\ env = NoEnv
    /\ sha = Undefined
    /\ failed = <<>>
    /\ outputs = [urls |-> <<>>, urlsSet |-> FALSE, vercel_jwt |-> ""]
    /\ resolver = IdleResolver
    /\ pollers = <<>>
    /\ \/ \E maxTimeoutSec \in BudgetInputs, ms \in IntervalMillisInputs :
            call = [NoCall EXCEPT !.fn = "calculateIterations",
                                  !.maxTimeoutSec = maxTimeoutSec,
                                  !.checkIntervalInMilliseconds = ms]
       \/ \E url \in CallUrls : \E reply \in BypassReplies(url) :
            call = [NoCall EXCEPT !.fn = "getPassword", !.url = url,
                                  !.requests = 1, !.reply = reply]

\* calculateIterations returns (lines 515-516)
CalculateIterationsReturn ==
    /\ call.fn = "calculateIterations"
    /\ ~call.done
    /\ call' = [call EXCEPT
           !.done = TRUE,
           !.iterations = calculateIterations(call.maxTimeoutSec,
                                              call.checkIntervalInMilliseconds)]
    /\ UNCHANGED <<runPc, env, sha, failed, outputs, resolver, pollers>>

\* the reply arrives and getPassword returns or throws (lines 591-623)
GetPasswordReturn ==
    /\ call.fn = "getPassword"
    /\ ~call.done
    /\ call' = [call EXCEPT !.done = TRUE, !.jwt = getPassword(call.reply)]
    /\ UNCHANGED <<runPc, env, sha, failed, outputs, resolver, pollers>>

NextCalls == CalculateIterationsReturn \/ GetPasswordReturn

SpecCalls == InitCalls /\ [][NextCalls]_vars


-----------------------------------------------------------------------------
(* Properties *)

Range(f) == {f[k] : k \in DOMAIN f}

Is2xx(reply) == reply.kind = "response" /\ reply.status \in 200..299

InProgress(deployments) ==
    \E k \in DOMAIN deployments : deployments[k].state \in InProgressStates

RECURSIVE Flatten(_)
Flatten(seqs) ==
    IF seqs = <<>> THEN <<>> ELSE Head(seqs) \o Flatten(Tail(seqs))

MatchesCommit(record) == record.githubCommitSha = sha

\* the latest-deployment records of the target commit, in project order then
\* record order
MatchingRecords(projects) == SelectSeq(Flatten(projects), MatchesCommit)

\* C1 as stated: the poll returns Success on the first attempt whose GET
\* completes with any response, whatever its status code; only attempts
\* without a response are retried.
C1_AnyResponseIsSuccess ==
    \A p \in DOMAIN pollers :
        pollers[p].lastGet.kind = "response"
            => pollers[p].outcome = "Success"

\* C1 as amended: the poll returns Success on the first attempt whose GET
\* completes with a 2xx response; an attempt whose GET ends without a
\* response or with a response of any other status (404) is not a
\* Success and is retried after a sleep.
C1_SuccessOnFirst2xx ==
    \A p \in DOMAIN pollers :
        LET q == pollers[p]
        IN  /\ Is2xx(q.lastGet) => q.outcome = "Success" /\ q.pc = "done"
            /\ q.outcome = "Success" => Is2xx(q.lastGet)
            /\ (q.lastGet.kind # "none" /\ ~Is2xx(q.lastGet) /\ q.pc = "wait")
                   => q.outcome = "Pending" /\ q.sleeps > 0

\* a poller that succeeded with a 200 on a later attempt, after a retry
C1_Witness ==
    \E p \in DOMAIN pollers :
        /\ pollers[p].outcome = "Success"
        /\ pollers[p].lastGet = Response(200)
        /\ pollers[p].gets >= 2

\* a poller sleeping after a 404 response
C1_Witness404Retried ==
    \E p \in DOMAIN pollers :
        /\ pollers[p].lastGet = Response(404)
        /\ pollers[p].pc = "wait"

\* C2: a list returned by the resolution poller holds exactly one target per
\* latest-deployment record of the target commit, in project order then
\* record order, and none for another record; a target's url is the last
\* alias of its record and its name is the record's name; the attempt that
\* returned saw no in-progress deployment.
C2_TargetsAreMatchingRecords ==
    (resolver.pc = "returned" /\ resolver.result.kind = "links") =>
        LET links == resolver.result.links
            records == MatchingRecords(resolver.vercelProjects)
        IN  /\ ~InProgress(resolver.vercelDeps)
            /\ Len(links) = Len(records)
            /\ \A k \in DOMAIN links :
                 LET aliases == records[k].automaticAliases
                 IN  /\ links[k].name = records[k].name
                     /\ Len(aliases) > 0 => links[k].url = aliases[Len(aliases)]
                     /\ Len(aliases) = 0 => links[k].url = Undefined

\* two targets returned from two projects with three records, the first of
\* them with two aliases
C2_Witness ==
    /\ resolver.pc = "returned"
    /\ resolver.result.kind = "links"
    /\ Len(Flatten(resolver.vercelProjects)) = 3
    /\ Len(resolver.result.links) = 2
    /\ resolver.result.links[1].url = "web-preview.vercel.app"

\* C3 as stated: when the resolution poller returns Timeout or an empty
\* list, the step is failed with the 'no deployment found' message and no
\* health poller is launched.
C3_TimeoutOrEmptyFails ==
    (/\ resolver.pc = "returned"
     /\ \/ resolver.result.kind = "null"
        \/ resolver.result.kind = "links" /\ resolver.result.links = <<>>)
        => /\ NoDeploymentMessage \in Range(failed)
           /\ pollers = <<>>

\* the deployment-list requests of the resolver that have been answered or
\* have failed
AttemptsAnswered(r) == IF r.pc = "deps" THEN r.depFetches - 1 ELSE r.depFetches

\* C4: the resolution poller never starts more attempts than
\* calculateIterations(budget); and as long as every deployment-list request
\* made so far was answered with a list that holds an in-progress
\* deployment, the call has returned no target list, and it has returned
\* at all only after exactly calculateIterations(budget) deployment-list
\* requests, with null (Timeout), which ends the run.
C4_AlwaysInProgressTimesOut ==
    /\ resolver.depFetches <= IF resolver.iterations > 0
                              THEN resolver.iterations ELSE 0
    /\ (/\ resolver.iterations > 0
        /\ resolver.inProgressAttempts = AttemptsAnswered(resolver))
           => /\ resolver.result.kind # "links"
              /\ resolver.pc = "returned"
                     => /\ resolver.result.kind = "null"
                        /\ resolver.depFetches = resolver.iterations
                        /\ resolver.i = resolver.iterations
                        /\ runPc = "done"

\* a Timeout after two attempts that both saw an in-progress deployment
C4_Witness ==
    /\ resolver.pc = "returned"
    /\ resolver.result.kind = "null"
    /\ resolver.iterations >= 2
    /\ resolver.depFetches = resolver.iterations
    /\ resolver.inProgressAttempts = AttemptsAnswered(resolver)

\* the attempts of poller q that have ended
AttemptsEnded(q) ==
    IF q.pc = "wait" \/ q.outcome = "Success" THEN q.i + 1 ELSE q.i

\* C5: while every attempt of a health poller has ended without a response
\* to its GET, the poller has slept once per attempt and has not succeeded;
\* when it ends it has sent exactly calculateIterations(budget) GETs, slept
\* as many times, and its outcome is Timeout.
C5_AllTransportFailuresTimeOut ==
    \A p \in DOMAIN pollers :
        LET q == pollers[p]
        IN  q.noResponses = AttemptsEnded(q) =>
                /\ q.sleeps = q.noResponses
                /\ q.outcome # "Success"
                /\ q.pc = "done" =>
                       /\ q.outcome = "Timeout"
                       /\ q.gets = q.iterations
                       /\ q.sleeps = q.iterations

\* a poller that timed out after two GETs without a response
C5_Witness ==
    \E p \in DOMAIN pollers :
        /\ pollers[p].outcome = "Timeout"
        /\ pollers[p].iterations >= 2
        /\ pollers[p].noResponses = pollers[p].iterations

\* C6 as stated: when resolving the path against the url fails, the poll is
\* aborted at once: no sleep, no further attempt, and no Timeout.
C6_BadUrlAborts ==
    \A p \in DOMAIN pollers :
        pollers[p].urlErrors > 0 =>
            /\ pollers[p].pc = "done"
            /\ pollers[p].outcome # "Timeout"
            /\ pollers[p].urlErrors = 1
            /\ pollers[p].sleeps = 0

\* C7: the resolution poller returns a list only from an attempt whose
\* deployment list holds no QUEUED, BUILDING or INITIALIZING deployment; an
\* attempt that saw one sleeps instead, also when the project list holds a
\* record of the target commit.
C7_NoReturnWhileInProgress ==
    /\ (resolver.pc = "returned" /\ resolver.result.kind = "links")
           => \A k \in DOMAIN resolver.vercelDeps :
                  resolver.vercelDeps[k].state \notin InProgressStates
    /\ (resolver.pc = "projects" /\ InProgress(resolver.vercelDeps))
           => resolver.result.kind = "pending"
    /\ resolver.pc = "wait_queued"
           => InProgress(resolver.vercelDeps) /\ resolver.result.kind = "pending"

\* an attempt that found a record of the target commit and did not return,
\* because a deployment of another project was BUILDING
C7_Witness ==
    /\ resolver.pc = "wait_queued"
    /\ resolver.vercelDeps = <<Dep("web", "READY"), Dep("api", "BUILDING")>>
    /\ MatchingRecords(resolver.vercelProjects) # <<>>
    /\ pollers = <<>>

\* C8 as stated: once a missing required input (the vercel_token, or the
\* token) is recorded as a failure, the run is over: no request to the
\* deployment platform and no poller.
C8_MissingTokenAborts ==
    (Range(failed) \cap {NoVercelTokenMessage, NoGithubTokenMessage,
                         NoTokenMessage} # {})
        => /\ resolver.pc = "idle"
           /\ resolver.depFetches = 0
           /\ pollers = <<>>
           /\ ~outputs.urlsSet

OrchestratorMessages ==
    {NoDeploymentMessage, NoShaMessage, NoPrNumberMessage, NoPrInfoMessage,
     NoTokenMessage, NoGithubTokenMessage, NoVercelTokenMessage,
     NoAuthMessage,
     "Not Found"}

\* C9 as stated: a run that published `urls` has launched one poller per
\* target, has recorded no failure of its own, and completes while every
\* poll is still outstanding.
C9_FireAndForget ==
    [][(runPc # "done" /\ runPc' = "done" /\ outputs'.urlsSet)
          => /\ Len(pollers') = Len(outputs'.urls)
             /\ \A p \in DOMAIN pollers' : pollers'[p].outcome = "Pending"
             /\ Range(failed') \cap OrchestratorMessages = {}]_vars

\* C10: a health poller whose budget is exhausted has failed the step with
\* the message naming its URL, and every poller that timed out has done so.
C10_TimeoutNamesUrl ==
    /\ \A p \in DOMAIN pollers :
           pollers[p].outcome = "Timeout"
               => ("Timeout reached: Unable to connect to " \o pollers[p].url)
                      \in Range(failed)
    /\ Cardinality({p \in DOMAIN pollers : pollers[p].outcome = "Timeout"})
           = Cardinality({k \in DOMAIN failed :
                              failed[k] \notin OrchestratorMessages})

\* two pollers of different URLs that both timed out
C10_Witness ==
    \E p, r \in DOMAIN pollers :
        /\ pollers[p].url # pollers[r].url
        /\ pollers[p].outcome = "Timeout"
        /\ pollers[r].outcome = "Timeout"

-----------------------------------------------------------------------------
(* The retry budget: calculateIterations *)

\* a direct call of calculateIterations that has returned
IterationsReturned == call.fn = "calculateIterations" /\ call.done

\* C11 as stated: for positive integer inputs (and a budget of 0) the count
\* is the floor of maxWaitSeconds / (intervalMillis / 1000), it is 30 for
\* (60, 2000) and 0 for (0, 2000), it does not decrease when the budget
\* grows and does not increase when the interval grows.
C11_IterationsAreExactFloor ==
    (IterationsReturned /\ call.maxTimeoutSec >= 0) =>
        LET t  == call.maxTimeoutSec
            ms == call.checkIntervalInMilliseconds
        IN  /\ call.iterations = (t * 1000) \div ms
            /\ (t = 60 /\ ms = 2000) => call.iterations = 30
            /\ (t = 0 /\ ms = 2000) => call.iterations = 0
            /\ \A u \in 0..t : calculateIterations(u, ms) <= call.iterations
            /\ \A m \in IntervalMillisInputs :
                   m >= ms => calculateIterations(t, m) <= call.iterations

\* C12 as stated: the count is never negative; for every non-positive
\* budget and every positive interval it is exactly 0.
C12_NonPositiveBudgetGivesZero ==
    IterationsReturned =>
        /\ call.iterations >= 0
        /\ call.maxTimeoutSec <= 0 => call.iterations = 0

\* C12 amended: for a positive interval the count is 0 for a budget of 0,
\* negative for a negative budget (at most the floor of the quotient, which
\* a truncation toward zero would not give), and never negative for a
\* non-negative budget; a non-positive budget never gives a positive count.
C12_SignFollowsBudget ==
    IterationsReturned =>
        LET t  == call.maxTimeoutSec
            ms == call.checkIntervalInMilliseconds
        IN  /\ t = 0 => call.iterations = 0
            /\ t < 0 => /\ call.iterations < 0
                        /\ call.iterations * ms <= t * 1000
            /\ t > 0 => call.iterations >= 0

\* calculateIterations(-1, 2000) has returned -1
C12_Witness ==
    /\ IterationsReturned
    /\ call.maxTimeoutSec = 0 - 1
    /\ call.checkIntervalInMilliseconds = 2000
    /\ call.iterations = 0 - 1

\* C13 as stated: a budget of 0 means no attempt: a poller whose count is 0
\* sends no request, never sleeps and ends in Timeout at once (the resolver
\* returns null and the step fails, the health poller marks the step
\* failed), and a configured max_timeout of 0 is such a budget.
C13_ZeroBudgetMakesNoAttempt ==
    LET NoAttempt ==
            /\ resolver.pc = "returned"
            /\ resolver.result = ReturnNull
            /\ resolver.depFetches = 0
            /\ resolver.projFetches = 0
            /\ resolver.sleeps = 0
            /\ pollers = <<>>
            /\ runPc = "done"
            /\ \E k \in DOMAIN failed : failed[k] = NoDeploymentMessage
    IN  /\ (resolver.pc # "idle" /\ resolver.iterations = 0) => NoAttempt
        /\ \A p \in DOMAIN pollers :
               pollers[p].iterations = 0 =>
                   /\ pollers[p].outcome = "Timeout"
                   /\ pollers[p].gets = 0
                   /\ pollers[p].posts = 0
                   /\ pollers[p].sleeps = 0
        /\ (resolver.pc # "idle" /\ env.max_timeout = "0") => NoAttempt

-----------------------------------------------------------------------------
(* The bypass token fetcher: getPassword *)

\* a direct call of getPassword that has returned or thrown
PasswordSettled == call.fn = "getPassword" /\ call.done

\* the values of the cookies named _vercel_jwt in the Set-Cookie header
JwtValues(reply) ==
    IF reply.hasSetCookie
    THEN {reply.setCookie[k][2] :
             k \in {j \in DOMAIN reply.setCookie :
                       reply.setCookie[j][1] = "_vercel_jwt"}}
    ELSE {}

\* C14: getPassword sends one request and never another. For a response
\* with a status in [200, 307) it returns the value of the _vercel_jwt
\* cookie when the Set-Cookie header has that cookie with a non-empty value,
\* and throws 'no vercel JWT in response' when the header is absent, has no
\* such cookie, or the cookie's value is empty; for a status outside
\* [200, 307) or no response at all it throws the error of the request.
\* It never returns an empty token.
C14_TokenOrFailure ==
    PasswordSettled =>
        LET r        == call.reply
            inRange  == r.kind = "response" /\ r.status >= 200 /\ r.status < 307
            nonEmpty == JwtValues(r) \ {""}
        IN  /\ call.requests = 1
            /\ (inRange /\ nonEmpty # {}) =>
                   call.jwt.ok /\ call.jwt.value \in nonEmpty
            /\ (inRange /\ nonEmpty = {}) =>
                   call.jwt = Thrown("no vercel JWT in response")
            /\ ~inRange =>
                   /\ ~call.jwt.ok
                   /\ call.jwt.value \in {"Network Error", "Request failed"}
            /\ call.jwt.ok => call.jwt.value # ""

\* the 303 reply with `_vercel_jwt=abc123@...; Path=/` gave that token
C14_Witness ==
    /\ PasswordSettled
    /\ call.reply.status = 303
    /\ call.jwt = Returned(Jwt("abc123", call.url))

\* a reply whose _vercel_jwt cookie is empty made getPassword throw
C14_WitnessEmptyCookie ==
    /\ PasswordSettled
    /\ call.reply.status = 303
    /\ JwtValues(call.reply) = {""}
    /\ call.jwt = Thrown("no vercel JWT in response")

-----------------------------------------------------------------------------
(* Transient failures inside the retry loops *)

\* C15: with a bypass secret configured, when the token fetch of an attempt
\* fails (the POST settles and no token is held) the attempt ends there: no
\* health-check GET is sent, the poller sleeps once, stays pending and the
\* step is not failed; when the sleep ends the next attempt starts with a
\* new fetch if budget remains, and only an exhausted budget ends the poll.
C15_FailedFetchIsTransient ==
    [][\A p \in DOMAIN pollers :
          LET q == pollers[p]
              r == pollers'[p]
          IN  /\ (q.pc = "post" /\ r # q /\ r.headers = "") =>
                     /\ r.pc = "wait"
                     /\ r.gets = q.gets
                     /\ r.posts = q.posts
                     /\ r.sleeps = q.sleeps + 1
                     /\ r.i = q.i
                     /\ r.outcome = "Pending"
                     /\ failed' = failed
              /\ (q.pc = "wait" /\ r # q /\ q.headers = ""
                       /\ Truthy(env.VERCEL_PASSWORD)) =>
                     IF q.i + 1 < q.iterations
                     THEN r.pc = "post" /\ r.posts = q.posts + 1
                          /\ r.i = q.i + 1 /\ r.outcome = "Pending"
                     ELSE r.pc = "done" /\ r.outcome = "Timeout"
     ]_vars

\* a poller whose first token fetch failed slept, fetched again and succeeded
C15_Witness ==
    \E p \in DOMAIN pollers :
        /\ pollers[p].posts = 2
        /\ pollers[p].gets = 1
        /\ pollers[p].sleeps = 1
        /\ pollers[p].urlErrors = 0
        /\ pollers[p].sentCookie # ""
        /\ pollers[p].outcome = "Success"

\* C16: an error in either fetch of a resolver attempt (the step from a
\* pending fetch to the sleep of the catch) uses up that attempt only: the
\* call stays pending, run keeps waiting for it and records no failure.
\* When the sleep ends the next attempt starts if budget remains; an
\* attempt whose replies arrived and show no in-progress deployment returns
\* the targets, whatever happened before; null is returned only when the
\* budget is used up.
C16_FetchErrorsAreTransient ==
    [][/\ (resolver.pc \in {"deps", "projects"} /\ resolver'.pc = "wait") =>
              /\ resolver'.i = resolver.i
              /\ resolver'.iterations = resolver.iterations
              /\ resolver'.result = Pending
              /\ runPc' = "resolving"
              /\ failed' = failed
              /\ outputs' = outputs
              /\ pollers' = pollers
       /\ (resolver.pc = "wait" /\ resolver' # resolver) =>
              IF resolver.i + 1 < resolver.iterations
              THEN /\ resolver'.pc = "deps"
                   /\ resolver'.i = resolver.i + 1
                   /\ resolver'.depFetches = resolver.depFetches + 1
                   /\ runPc' = "resolving"
              ELSE resolver'.result = ReturnNull
       /\ (resolver.pc = "projects" /\ ~InProgress(resolver.vercelDeps)
               /\ resolver' # resolver /\ resolver'.pc # "wait") =>
              /\ resolver'.pc = "returned"
              /\ resolver'.result =
                     ReturnLinks(finalLinks(resolver'.vercelProjects, sha))
       /\ (resolver'.result = ReturnNull /\ resolver.result # ReturnNull) =>
              \/ resolver.pc = "wait" /\ resolver.i + 1 >= resolver.iterations
              \/ resolver.pc = "idle" /\ resolver'.iterations <= 0
      ]_vars

\* the first attempt ended in an error (one sleep); the second attempt
\* found nothing in progress and returned the targets
C16_Witness ==
    /\ resolver.pc = "returned"
    /\ resolver.result.kind = "links"
    /\ resolver.result.links # <<>>
    /\ resolver.i = 1
    /\ resolver.sleeps = 1
    /\ resolver.depFetches = 2
    /\ ~InProgress(resolver.vercelDeps)
    /\ failed = <<>>

-----------------------------------------------------------------------------
(* The commit SHA *)

\* run holds no commit SHA
ShaUnknown == sha = Undefined \/ sha = ""

\* C17: while run holds no commit SHA the resolver has not been called, no
\* health poller exists and `urls` is not published; a run that ended
\* without a SHA has marked the step failed, with 'Unable to determine SHA.
\* Exiting...' when the lookup or the push event gave none (or with the
\* error that ended it before the SHA was sought).
C17_NoShaFailsFast ==
    /\ ShaUnknown =>
           /\ resolver = IdleResolver
           /\ pollers = <<>>
           /\ ~outputs.urlsSet /\ outputs.urls = <<>>
    /\ (ShaUnknown /\ runPc = "done") =>
           /\ failed # <<>>
           /\ failed[Len(failed)] \in {NoShaMessage, NoTokenMessage,
                                      NoAuthMessage, "Not Found"}
    /\ (\E k \in DOMAIN failed : failed[k] = NoShaMessage) =>
           ShaUnknown /\ runPc = "done"

\* a push event without a SHA ended the run with the SHA failure
C17_Witness ==
    /\ runPc = "done"
    /\ ShaUnknown
    /\ Truthy(env.GITHUB_TOKEN) /\ Truthy(env.VERCEL_TOKEN)
    /\ failed = <<NoShaMessage>>

\* the pull-request lookup answered without a usable result
C17_WitnessLookupFailed ==
    /\ runPc = "done"
    /\ ShaUnknown
    /\ Truthy(env.VERCEL_TOKEN)
    /\ failed = <<NoPrInfoMessage, NoShaMessage>>

-----------------------------------------------------------------------------
(* Sleeps and requests of the resolver *)

\* C18 as stated: every attempt of the resolver that does not return is
\* followed by exactly one sleep, whether deployments were in progress or
\* the attempt failed, so the sleeps taken when an attempt starts equal the
\* attempts that ended, and a call that returns null has slept exactly
\* calculateIterations(budget) times.
C18_OneSleepPerAttempt ==
    /\ resolver.pc \in {"deps", "projects"} => resolver.sleeps = resolver.i
    /\ resolver.pc = "wait" => resolver.sleeps = resolver.i + 1
    /\ (resolver.pc = "returned" /\ resolver.result = ReturnNull
            /\ resolver.iterations >= 0) =>
           resolver.sleeps = resolver.iterations

\* C19 as stated: the project list is requested only in an attempt whose
\* deployment list was found to hold no in-progress deployment.
C19_ProjectsOnlyWhenNoneInProgress ==
    resolver.pc = "projects" => ~InProgress(resolver.vercelDeps)

\* C19 amended: in every attempt the project list is requested after the
\* deployment list of that attempt has arrived, and always then, whether or
\* not the list holds an in-progress deployment; a project request is never
\* sent at another moment (none after a deployment-list request that
\* failed), and an attempt is found in progress (and sleeps
\* for that reason) only after its project request was answered.
C19_ProjectsAfterEveryDeploymentList ==
    [][/\ (resolver.pc = "deps" /\ resolver' # resolver
               /\ resolver'.pc # "wait") =>
              /\ resolver'.pc = "projects"
              /\ resolver'.projFetches = resolver.projFetches + 1
              /\ resolver'.depFetches = resolver.depFetches
              /\ resolver'.i = resolver.i
       /\ (resolver.pc = "deps" /\ resolver'.pc = "wait") =>
              resolver'.projFetches = resolver.projFetches
       /\ resolver'.projFetches # resolver.projFetches =>
              /\ resolver.pc = "deps"
              /\ resolver'.projFetches = resolver.projFetches + 1
       /\ (resolver'.pc = "wait_queued" /\ resolver.pc # "wait_queued") =>
              /\ resolver.pc = "projects"
              /\ InProgress(resolver.vercelDeps)
              /\ resolver.inProgressAttempts <= resolver.projFetches
      ]_vars

\* the deployment list of the first attempt holds an in-progress deployment
\* and the project list of that attempt has been requested
C19_Witness ==
    /\ resolver.pc = "projects"
    /\ resolver.i = 0
    /\ InProgress(resolver.vercelDeps)
    /\ resolver.depFetches = 1
    /\ resolver.projFetches = 1

-----------------------------------------------------------------------------
(* Concurrent health pollers *)

\* the tokens the deployment at `url` issues
IssuedBy(url) ==
    UNION {JwtValues(reply) \ {""} : reply \in BypassReplies(url)}

\* C20: under every interleaving of the health pollers, a step changes at
\* most one poller (its loop counter, headers, counts and outcome are its
\* own); a health-check GET is sent with the token this poller received in
\* the same step from the deployment at its own URL, a token no deployment
\* at another poller's URL issues; and without a bypass secret no cookie is
\* sent at all.
C20_PollersAreIsolated ==
    [][\A p \in DOMAIN pollers :
          LET q == pollers[p]
              r == pollers'[p]
          IN  /\ r # q => \A o \in DOMAIN pollers \ {p} :
                             pollers'[o] = pollers[o]
              /\ r.gets > q.gets =>
                     /\ r.gets = q.gets + 1
                     /\ r.sentCookie = r.headers
                     /\ IF Truthy(env.VERCEL_PASSWORD)
                        THEN /\ q.pc = "post"
                             /\ r.sentCookie \in IssuedBy(r.url)
                             /\ \A o \in DOMAIN pollers \ {p} :
                                    r.sentCookie \notin IssuedBy(pollers[o].url)
                        ELSE r.sentCookie = ""
     ]_vars

\* two pollers wait for the replies to health checks they sent with the
\* tokens of their own deployments, after the token of the second poller
\* was published as the step's output
C20_Witness ==
    /\ Len(pollers) = 2
    /\ pollers[1].pc = "get" /\ pollers[2].pc = "get"
    /\ pollers[1].sentCookie \in IssuedBy(pollers[1].url)
    /\ pollers[2].sentCookie \in IssuedBy(pollers[2].url)
    /\ pollers[1].sentCookie # pollers[2].sentCookie
    /\ outputs.vercel_jwt = pollers[2].sentCookie

-----------------------------------------------------------------------------
(* One token fetch per attempt *)

\* the attempts a health poller has started
AttemptsStarted(q) == IF q.outcome = "Timeout" THEN q.i ELSE q.i + 1

\* C21: with a bypass secret configured, a health poller has sent as many
\* token fetches as it has started attempts and never more GETs than
\* fetches; a GET is sent only in the step in which the fetch of the same
\* attempt is answered, by a poller that held no token before that answer,
\* and it carries the token received in that step.
C21_TokenFetchedPerAttempt ==
    [][Truthy(env'.VERCEL_PASSWORD) =>
          /\ \A p \in DOMAIN pollers' :
                 /\ pollers'[p].posts = AttemptsStarted(pollers'[p])
                 /\ pollers'[p].gets <= pollers'[p].posts
                 /\ pollers'[p].pc = "post" => pollers'[p].headers = ""
          /\ \A p \in DOMAIN pollers :
                 LET q == pollers[p]
                     r == pollers'[p]
                 IN  r.gets > q.gets =>
                         /\ q.pc = "post"
                         /\ q.headers = ""
                         /\ r.i = q.i
                         /\ r.posts = q.posts
                         /\ r.headers # ""
                         /\ r.sentCookie = r.headers
     ]_vars

\* the second attempt of a poller fetched a token again and sent its GET
\* with it
C21_Witness ==
    \E p \in DOMAIN pollers :
        /\ Truthy(env.VERCEL_PASSWORD)
        /\ pollers[p].i = 1
        /\ pollers[p].pc = "get"
        /\ pollers[p].posts = 2
        /\ pollers[p].gets = 2
        /\ pollers[p].sentCookie = Jwt("def456", pollers[p].url)

-----------------------------------------------------------------------------
(* Termination *)

\* the attempts a budget allows
Budget(iterations) == IF iterations > 0 THEN iterations ELSE 0

\* the health poller p has ended, in Success or in Timeout
PollerEnded(p) ==
    /\ p \in DOMAIN pollers
    /\ pollers[p].pc = "done"
    /\ pollers[p].outcome \in {"Success", "Timeout"}

\* the resolver has returned a list of targets or null
ResolverEnded ==
    /\ resolver.pc = "returned"
    /\ resolver.result.kind \in {"links", "null"}

\* run is over, the resolver call it made has returned and every health
\* poller it launched has ended
Quiescent ==
    /\ runPc = "done"
    /\ resolver.pc # "idle" => ResolverEnded
    /\ \A p \in DOMAIN pollers : PollerEnded(p)

\* C22: when every request is answered and every timer fires, the run
\* reaches a state in which the resolver call that was made has returned (a
\* list or null) and every health poller that was launched has ended
\* (Success or Timeout); neither starts more attempts nor sends more requests
\* of a kind than calculateIterations(budget); and a call that has ended
\* never changes again, so it sends nothing more and stays ended.
C22_BudgetDrivenTermination ==
    /\ <>Quiescent
    /\ [](/\ Len(pollers) <= MaxPollers
          /\ resolver.i <= Budget(resolver.iterations)
          /\ resolver.depFetches <= Budget(resolver.iterations)
          /\ resolver.projFetches <= resolver.depFetches
          /\ \A p \in DOMAIN pollers :
                 /\ AttemptsStarted(pollers[p]) <= Budget(pollers[p].iterations)
                 /\ pollers[p].gets <= Budget(pollers[p].iterations)
                 /\ pollers[p].posts <= Budget(pollers[p].iterations)
                 /\ pollers[p].outcome # "Pending" => pollers[p].pc = "done")
    /\ [][/\ ResolverEnded => resolver' = resolver
          /\ \A p \in DOMAIN pollers :
                 PollerEnded(p) => pollers'[p] = pollers[p]
         ]_vars

\* the run is over: the resolver returned two targets, one poller ended in
\* Success and the other used its whole budget and ended in Timeout
C22_Witness ==
    /\ ResolverEnded
    /\ Len(pollers) = 2
    /\ pollers[1].outcome = "Success"
    /\ pollers[2].outcome = "Timeout"
    /\ pollers[2].iterations = MaxIterations
    /\ pollers[2].gets = MaxIterations
    /\ PollerEnded(1) /\ PollerEnded(2)

====
